---- MODULE Spec2Model ----
(***************************************************************************)
(* Model of cam_test_dir/yolo_server.py: one FastAPI endpoint,             *)
(* POST /detect/, whose handler detect_objects reads the upload, decodes   *)
(* it with PIL, runs the shared YOLOv5 model on it and reshapes the raw    *)
(* detections into a JSON-able mapping.                                    *)
(*                                                                         *)
(* Handlers are coroutines of one event loop: a handler gives up the       *)
(* thread only at `await file.read()` (line 15); lines 16-32 run without   *)
(* suspension.  `running` is the request whose handler holds the thread.   *)
(*                                                                         *)
(* Floats are fixed-point numbers in units of 1/Unit (1.0 is Unit).        *)
(* An optional value (a local that may be unbound) is a sequence of        *)
(* length 0 or 1.                                                          *)
(***************************************************************************)
EXTENDS Integers, Sequences, FiniteSets, TLC

\* ---------------------------------------------------------------- bounds
NumReq == 2
MaxLen == 2
Unit == 2

\* --------------------------------------------------------------- values
Reqs == 1..NumReq
Bytes == {0, 1}
Magic == 1

None == << >>
Some(x) == << x >>
Bound(o) == o # << >>
Val(o) == o[1]

RECURSIVE SeqsUpTo(_)
SeqsUpTo(n) ==
    IF n = 0 THEN { << >> }
    ELSE LET shorter == SeqsUpTo(n - 1)
         IN shorter \cup { Append(s, b) : s \in { t \in shorter : Len(t) = n - 1 }, b \in Bytes }

Uploads == SeqsUpTo(MaxLen)

\* Image.open(io.BytesIO(image_data)): the format is identified by the header;
\* data that no decoder identifies raises UnidentifiedImageError.
Decodable(bytes) == Len(bytes) >= 1 /\ Head(bytes) = Magic
Decode(bytes) == [width |-> Len(bytes) - 1, data |-> Tail(bytes)]

\* model.names: class index -> class name (0-based)
NameList == << "person", "bicycle", "car" >>
NumClasses == Len(NameList)
Names == [i \in 0..(NumClasses - 1) |-> NameList[i + 1]]
LoadedModel == [weights |-> "yolov5s", names |-> Names]

\* The rows (x_min, y_min, x_max, y_max, confidence, class_id) the detector
\* yields for column i of the image, most confident first: a rider (a person
\* on a bicycle) where the pixel is 1, a car where it is 0.
RowsAt(i, v) ==
    IF v = 1
    THEN << << (i - 1) * Unit, 0, i * Unit, Unit, Unit, 0 * Unit >>,
            << (i - 1) * Unit, Unit \div 2, i * Unit, Unit, Unit \div 2, 1 * Unit >> >>
    ELSE << << (i - 1) * Unit, 0, i * Unit, Unit, (Unit + 1) \div 2, 2 * Unit >> >>

RECURSIVE DetectFrom(_, _)
DetectFrom(image, i) ==
    IF i > image.width THEN << >>
    ELSE RowsAt(i, image.data[i]) \o DetectFrom(image, i + 1)

\* results = model(image); results.xyxy[0]
Forward(m, image) == IF m.weights = "yolov5s" THEN DetectFrom(image, 1) ELSE << >>

\* int(x) of a non-negative float
ToInt(x) == x \div Unit
\* float(x) of a float
ToFloat(x) == x

MakeRecordWrongName(raw) ==
    [class_id   |-> ToInt(raw[6]),
     class_name |-> NameList[((ToInt(raw[6]) + 1) % NumClasses) + 1],
     confidence |-> ToFloat(raw[5]),
     bbox       |-> << ToFloat(raw[1]), ToFloat(raw[2]), ToFloat(raw[3]), ToFloat(raw[4]) >>]

MakeRecordSwappedBox(raw) ==
    [class_id   |-> ToInt(raw[6]),
     class_name |-> Names[ToInt(raw[6])],
     confidence |-> ToFloat(raw[5]),
     bbox       |-> << ToFloat(raw[3]), ToFloat(raw[2]), ToFloat(raw[1]), ToFloat(raw[4]) >>]

\* lines 24-30: the dict appended for one raw detection
MakeRecord(raw) ==
    [class_id   |-> ToInt(raw[6]),
     class_name |-> Names[ToInt(raw[6])],
     confidence |-> ToFloat(raw[5]),
     bbox       |-> << ToFloat(raw[1]), ToFloat(raw[2]), ToFloat(raw[3]), ToFloat(raw[4]) >>]

\* ---------------------------------------------------------------- state
VARIABLES
    model,        \* the module-level model handle
    running,      \* request whose handler holds the event loop thread, 0: none
    pc,           \* per request: position of its handler
    file,         \* per request: the uploaded bytes
    image_data,   \* per request: local image_data (optional)
    image,        \* per request: local image (optional)
    results,      \* per request: local results.xyxy[0] (optional)
    detections,   \* per request: local detections (optional)
    idx,          \* per request: rows of results the for loop has consumed
    outcome,      \* per request: what the handler handed to the framework (optional)
    calls,        \* history: model invocations made for the request
    modelFailed,  \* history: the model call of the request raised
    overlapped    \* history: since the last arrival, a handler resumed while another awaited its read

vars == << model, running, pc, file, image_data, image, results, detections,
           idx, outcome, calls, modelFailed, overlapped >>

Returned(value) == [kind |-> "return", value |-> value, exc |-> ""]
Raised(exc) == [kind |-> "raise", value |-> [detections |-> << >>], exc |-> exc]

Init ==
    /\ model = LoadedModel
    /\ running = 0
    /\ pc = [r \in Reqs |-> "idle"]
    /\ file = [r \in Reqs |-> << >>]
    /\ image_data = [r \in Reqs |-> None]
    /\ image = [r \in Reqs |-> None]
    /\ results = [r \in Reqs |-> None]
    /\ detections = [r \in Reqs |-> None]
    /\ idx = [r \in Reqs |-> 0]
    /\ outcome = [r \in Reqs |-> None]
    /\ calls = [r \in Reqs |-> 0]
    /\ modelFailed = [r \in Reqs |-> FALSE]
    /\ overlapped = FALSE

\* The handler's frame is released: every local is unbound again.
DropLocals(r) ==
    /\ image_data' = [image_data EXCEPT ![r] = None]
    /\ image' = [image EXCEPT ![r] = None]
    /\ results' = [results EXCEPT ![r] = None]
    /\ detections' = [detections EXCEPT ![r] = None]
    /\ idx' = [idx EXCEPT ![r] = 0]

\* An exception leaves the handler: the framework gets it, the frame is released.
Raise(r, exc) ==
    /\ outcome' = [outcome EXCEPT ![r] = Some(Raised(exc))]
    /\ pc' = [pc EXCEPT ![r] = "done"]
    /\ running' = 0
    /\ DropLocals(r)

\* line 13: the framework calls detect_objects(file); the handler runs to the
\* await of line 15 and is suspended there.
Receive(r, bytes) ==
    /\ running = 0
    /\ pc[r] \in {"idle", "done"}
    /\ file' = [file EXCEPT ![r] = bytes]
    /\ pc' = [pc EXCEPT ![r] = "read"]
    /\ outcome' = [outcome EXCEPT ![r] = None]
    /\ calls' = [calls EXCEPT ![r] = 0]
    /\ modelFailed' = [modelFailed EXCEPT ![r] = FALSE]
    /\ overlapped' = FALSE
    /\ UNCHANGED << model, running, image_data, image, results, detections, idx >>

ReadDoneSharedBuffer(r) ==
    /\ running = 0
    /\ pc[r] = "read"
    /\ image_data' = [image_data EXCEPT ![r] =
            IF \E q \in Reqs : q # r /\ pc[q] = "read"
            THEN Some(file[CHOOSE q \in Reqs : q # r /\ pc[q] = "read"])
            ELSE Some(file[r])]
    /\ running' = r
    /\ pc' = [pc EXCEPT ![r] = "open"]
    /\ overlapped' = (overlapped \/ \E q \in Reqs : q # r /\ pc[q] = "read")
    /\ UNCHANGED << model, file, image, results, detections, idx, outcome,
                    calls, modelFailed >>

\* line 15: the read completes and the handler is resumed with the bytes.
ReadDone(r) ==
    /\ running = 0
    /\ pc[r] = "read"
    /\ image_data' = [image_data EXCEPT ![r] = Some(file[r])]
    /\ running' = r
    /\ pc' = [pc EXCEPT ![r] = "open"]
    /\ overlapped' = (overlapped \/ \E q \in Reqs : q # r /\ pc[q] = "read")
    /\ UNCHANGED << model, file, image, results, detections, idx, outcome,
                    calls, modelFailed >>

ImageOpenLenient(r) ==
    /\ running = r
    /\ pc[r] = "open"
    /\ image' = [image EXCEPT ![r] =
            IF Decodable(Val(image_data[r])) THEN Some(Decode(Val(image_data[r])))
            ELSE Some([width |-> 0, data |-> << >>])]
    /\ pc' = [pc EXCEPT ![r] = "infer"]
    /\ UNCHANGED << model, running, file, image_data, results, detections, idx,
                    outcome, calls, modelFailed, overlapped >>

\* line 16: image = Image.open(io.BytesIO(image_data))
ImageOpen(r) ==
    /\ running = r
    /\ pc[r] = "open"
    /\ IF Decodable(Val(image_data[r]))
       THEN /\ image' = [image EXCEPT ![r] = Some(Decode(Val(image_data[r])))]
            /\ pc' = [pc EXCEPT ![r] = "infer"]
            /\ UNCHANGED << running, image_data, results, detections, idx, outcome >>
       ELSE Raise(r, "UnidentifiedImageError")
    /\ UNCHANGED << model, file, calls, modelFailed, overlapped >>

InferRetry(r) ==
    /\ running = r
    /\ pc[r] = "infer"
    /\ calls[r] < 3
    /\ calls' = [calls EXCEPT ![r] = @ + 1]
    /\ \/ /\ results' = [results EXCEPT ![r] = Some(Forward(model, Val(image[r])))]
          /\ pc' = [pc EXCEPT ![r] = "init"]
          /\ UNCHANGED modelFailed
       \/ /\ modelFailed' = [modelFailed EXCEPT ![r] = TRUE]
          /\ UNCHANGED << results, pc >>
    /\ UNCHANGED << model, running, file, image_data, image, detections, idx,
                    outcome, overlapped >>

InferSwallow(r) ==
    /\ running = r
    /\ pc[r] = "infer"
    /\ calls' = [calls EXCEPT ![r] = @ + 1]
    /\ pc' = [pc EXCEPT ![r] = "init"]
    /\ \/ /\ results' = [results EXCEPT ![r] = Some(Forward(model, Val(image[r])))]
          /\ UNCHANGED modelFailed
       \/ /\ modelFailed' = [modelFailed EXCEPT ![r] = TRUE]
          /\ results' = [results EXCEPT ![r] = Some(<< >>)]
    /\ UNCHANGED << model, running, file, image_data, image, detections, idx,
                    outcome, overlapped >>

\* line 19: results = model(image); the forward pass returns or raises.
Infer(r) ==
    /\ running = r
    /\ pc[r] = "infer"
    /\ calls' = [calls EXCEPT ![r] = @ + 1]
    /\ \/ /\ results' = [results EXCEPT ![r] = Some(Forward(model, Val(image[r])))]
          /\ pc' = [pc EXCEPT ![r] = "init"]
          /\ UNCHANGED << running, image_data, image, detections, idx, outcome,
                          modelFailed >>
       \/ /\ modelFailed' = [modelFailed EXCEPT ![r] = TRUE]
          /\ Raise(r, "RuntimeError")
    /\ UNCHANGED << model, file, overlapped >>

InitListShared(r) ==
    /\ running = r
    /\ pc[r] = "init"
    /\ detections' = [detections EXCEPT ![r] =
            IF \E q \in Reqs : q # r /\ Bound(outcome[q]) /\ Val(outcome[q]).kind = "return"
            THEN Some(Val(outcome[CHOOSE q \in Reqs :
                        q # r /\ Bound(outcome[q]) /\ Val(outcome[q]).kind = "return"]).value.detections)
            ELSE Some(<< >>)]
    /\ idx' = [idx EXCEPT ![r] = 0]
    /\ pc' = [pc EXCEPT ![r] = "loop"]
    /\ UNCHANGED << model, running, file, image_data, image, results, outcome,
                    calls, modelFailed, overlapped >>

\* line 22: detections = []
InitList(r) ==
    /\ running = r
    /\ pc[r] = "init"
    /\ detections' = [detections EXCEPT ![r] = Some(<< >>)]
    /\ idx' = [idx EXCEPT ![r] = 0]
    /\ pc' = [pc EXCEPT ![r] = "loop"]
    /\ UNCHANGED << model, running, file, image_data, image, results, outcome,
                    calls, modelFailed, overlapped >>

LoopStepThreshold(r) ==
    /\ running = r
    /\ pc[r] = "loop"
    /\ idx[r] < Len(Val(results[r]))
    /\ detections' = [detections EXCEPT ![r] =
            IF 2 * Val(results[r])[idx[r] + 1][5] > Unit
            THEN Some(Append(Val(@), MakeRecord(Val(results[r])[idx[r] + 1])))
            ELSE @]
    /\ idx' = [idx EXCEPT ![r] = @ + 1]
    /\ UNCHANGED << model, running, pc, file, image_data, image, results, outcome,
                    calls, modelFailed, overlapped >>

LoopStepRename(r) ==
    /\ running = r
    /\ pc[r] = "loop"
    /\ idx[r] < Len(Val(results[r]))
    /\ detections' = [detections EXCEPT ![r] =
            Some(Append(Val(@), MakeRecord(Val(results[r])[idx[r] + 1])))]
    /\ model' = [model EXCEPT !.names[ToInt(Val(results[r])[idx[r] + 1][6])] = "object"]
    /\ idx' = [idx EXCEPT ![r] = @ + 1]
    /\ UNCHANGED << running, pc, file, image_data, image, results, outcome,
                    calls, modelFailed, overlapped >>

\* lines 23-30: one iteration of `for detection in results.xyxy[0]`
LoopStep(r) ==
    /\ running = r
    /\ pc[r] = "loop"
    /\ idx[r] < Len(Val(results[r]))
    /\ detections' = [detections EXCEPT ![r] =
            Some(Append(Val(@), MakeRecord(Val(results[r])[idx[r] + 1])))]
    /\ idx' = [idx EXCEPT ![r] = @ + 1]
    /\ UNCHANGED << model, running, pc, file, image_data, image, results, outcome,
                    calls, modelFailed, overlapped >>

ReturnRaiseOnEmpty(r) ==
    /\ running = r
    /\ pc[r] = "loop"
    /\ idx[r] = Len(Val(results[r]))
    /\ outcome' = [outcome EXCEPT ![r] =
            IF Val(detections[r]) = << >>
            THEN Some(Raised("HTTPException"))
            ELSE Some(Returned([detections |-> Val(detections[r])]))]
    /\ pc' = [pc EXCEPT ![r] = "done"]
    /\ running' = 0
    /\ DropLocals(r)
    /\ UNCHANGED << model, file, calls, modelFailed, overlapped >>

\* line 32: return {"detections": detections}, once the loop is exhausted
Return(r) ==
    /\ running = r
    /\ pc[r] = "loop"
    /\ idx[r] = Len(Val(results[r]))
    /\ outcome' = [outcome EXCEPT ![r] = Some(Returned([detections |-> Val(detections[r])]))]
    /\ pc' = [pc EXCEPT ![r] = "done"]
    /\ running' = 0
    /\ DropLocals(r)
    /\ UNCHANGED << model, file, calls, modelFailed, overlapped >>

Next ==
    \E r \in Reqs :
        \/ \E bytes \in Uploads : Receive(r, bytes)
        \/ ReadDone(r)
        \/ ImageOpen(r)
        \/ Infer(r)
        \/ InitList(r)
        \/ LoopStep(r)
        \/ Return(r)

Spec == Init /\ [][Next]_vars

\* ------------------------------------------------------------ properties
Succeeded(r) == Bound(outcome[r]) /\ Val(outcome[r]).kind = "return"
Failed(r) == Bound(outcome[r]) /\ Val(outcome[r]).kind = "raise"
Response(r) == Val(outcome[r]).value
\* The rows the model yields for the image request r uploaded
OwnRows(r) == Forward(model, Decode(file[r]))
\* The records derived from them
OwnRecords(r) == [i \in 1..Len(OwnRows(r)) |-> MakeRecord(OwnRows(r)[i])]
RecordSet(recs) == { recs[i] : i \in 1..Len(recs) }

\* C1: whatever the interleaving of the requests, also at the await of the
\* file read, a successful response holds exactly the records derived from
\* the model's output for that request's own image, and no record that only
\* another request's image yields.
C1_NoCrossRequestLeak ==
    \A r \in Reqs :
        Succeeded(r) =>
            /\ Decodable(file[r])
            /\ Response(r).detections = OwnRecords(r)
            /\ \A q \in Reqs \ {r} :
                   (pc[q] # "idle" /\ Decodable(file[q])) =>
                       (RecordSet(Response(r).detections)
                            \cap (RecordSet(OwnRecords(q)) \ RecordSet(OwnRecords(r)))) = {}

\* Two requests with different valid images, whose handlers were both
\* suspended at the await when one of them resumed, have both been answered
\* with records, and the images yield different records.
C1_Witness ==
    \E r \in Reqs : \E q \in Reqs \ {r} :
        /\ overlapped
        /\ Succeeded(r) /\ Succeeded(q)
        /\ file[r] # file[q]
        /\ Response(r).detections # << >>
        /\ Response(q).detections # << >>
        /\ RecordSet(Response(r).detections) \cap RecordSet(Response(q).detections) = {}

\* C2: a request whose bytes do not decode never invokes the model and never
\* gets a success response: it ends with the decoding error raised.
C2_UndecodableFails ==
    \A r \in Reqs :
        (pc[r] # "idle" /\ ~Decodable(file[r])) =>
            /\ calls[r] = 0
            /\ ~Succeeded(r)
            /\ pc[r] \in {"read", "open", "done"}
            /\ pc[r] = "done" => outcome[r] = Some(Raised("UnidentifiedImageError"))

\* A text upload (non-empty, wrong header) has ended in the decoding error.
C2_Witness ==
    \E r \in Reqs :
        /\ pc[r] = "done"
        /\ file[r] # << >>
        /\ ~Decodable(file[r])
        /\ Failed(r)
        /\ calls[r] = 0

\* C3: in every successful response, each record's class_name is the entry
\* of the model's class-name table at that record's class_id.
C3_ClassNameMatchesTable ==
    \A r \in Reqs :
        Succeeded(r) =>
            \A i \in 1..Len(Response(r).detections) :
                LET d == Response(r).detections[i]
                IN /\ d.class_id \in DOMAIN model.names
                   /\ d.class_name = model.names[d.class_id]

\* A successful response names two different classes.
C3_Witness ==
    \E r \in Reqs :
        /\ Succeeded(r)
        /\ \E i, j \in 1..Len(Response(r).detections) :
               Response(r).detections[i].class_id # Response(r).detections[j].class_id

\* C4: a request with a decodable image for which the model returns an empty
\* first result set ends with exactly {"detections": []} returned.
C4_EmptyResultEmptyList ==
    \A r \in Reqs :
        (pc[r] = "done" /\ Decodable(file[r]) /\ ~modelFailed[r] /\ OwnRows(r) = << >>) =>
            outcome[r] = Some(Returned([detections |-> << >>]))

\* A decodable image without detections has been answered.
C4_Witness ==
    \E r \in Reqs :
        /\ pc[r] = "done"
        /\ Decodable(file[r])
        /\ OwnRows(r) = << >>
        /\ Succeeded(r)

\* C5: the detections list has one record per row of the model's first result
\* set, in the same order, with positions 0..3 copied to bbox, position 4 to
\* confidence and position 5 to class_id: while the loop runs the list is that
\* image of the rows consumed so far, and the response is that image of all.
RowCopied(d, raw) ==
    /\ d.bbox = << raw[1], raw[2], raw[3], raw[4] >>
    /\ d.confidence = raw[5]
    /\ d.class_id * Unit = raw[6]

C5_OneRecordPerRow ==
    \A r \in Reqs :
        /\ pc[r] = "loop" =>
               /\ Len(Val(detections[r])) = idx[r]
               /\ \A i \in 1..idx[r] : RowCopied(Val(detections[r])[i], Val(results[r])[i])
        /\ Succeeded(r) =>
               /\ Decodable(file[r])
               /\ Len(Response(r).detections) = Len(OwnRows(r))
               /\ \A i \in 1..Len(OwnRows(r)) :
                      RowCopied(Response(r).detections[i], OwnRows(r)[i])

\* A response with two records, the second less confident than the first
\* and below one half.
C5_Witness ==
    \E r \in Reqs :
        /\ Succeeded(r)
        /\ Len(Response(r).detections) >= 2
        /\ Response(r).detections[2].confidence < Response(r).detections[1].confidence
        /\ 2 * Response(r).detections[2].confidence <= Unit

C7_SameImageSameDetections ==
    \A r \in Reqs : \A q \in Reqs :
        (Succeeded(r) /\ Succeeded(q) /\ file[r] = file[q]) =>
            Response(r).detections = Response(q).detections

\* Two calls with the same image have both returned records.
C7_Witness ==
    \E r \in Reqs : \E q \in Reqs \ {r} :
        /\ Succeeded(r) /\ Succeeded(q)
        /\ file[r] = file[q]
        /\ Response(r).detections # << >>

\* C8: a request invokes the model at most once; not before its image is
\* decoded, exactly once before its first record is built, and exactly once
\* by the time it ends if its image decodes, whether the call returned or raised.
C8_ModelInvokedOnce ==
    \A r \in Reqs :
        /\ calls[r] <= 1
        /\ pc[r] \in {"idle", "read", "open", "infer"} => calls[r] = 0
        /\ pc[r] = "infer" => Bound(image[r]) /\ ~Bound(results[r]) /\ ~Bound(detections[r])
        /\ pc[r] \in {"init", "loop"} => calls[r] = 1 /\ Bound(image[r]) /\ Bound(results[r])
        /\ Bound(detections[r]) => calls[r] = 1
        /\ (pc[r] = "done" /\ Decodable(file[r])) => calls[r] = 1

\* One request has ended after a failed model call and another after a
\* successful one, each with one invocation.
C8_Witness ==
    \E r \in Reqs : \E q \in Reqs \ {r} :
        /\ pc[r] = "done" /\ modelFailed[r] /\ calls[r] = 1
        /\ Succeeded(q) /\ Response(q).detections # << >> /\ calls[q] = 1

\* C9: a request whose model call failed has ended with that failure raised
\* to the framework: no success response and no detections list, partial or not.
C9_ModelFailurePropagates ==
    \A r \in Reqs :
        modelFailed[r] =>
            /\ pc[r] = "done"
            /\ outcome[r] = Some(Raised("RuntimeError"))
            /\ ~Bound(detections[r])
            /\ ~Bound(results[r])

\* The model call failed for an image that has detections.
C9_Witness ==
    \E r \in Reqs :
        /\ modelFailed[r]
        /\ Failed(r)
        /\ Decodable(file[r])
        /\ OwnRows(r) # << >>

\* C10: the model handle and its class-name table are those loaded at startup
\* in every state, and a request that is not being handled holds no image,
\* result or detections list.
C10_ModelUnchangedNothingRetained ==
    /\ model = LoadedModel
    /\ \A r \in Reqs :
           pc[r] \in {"idle", "read", "done"} =>
               /\ ~Bound(image_data[r])
               /\ ~Bound(image[r])
               /\ ~Bound(results[r])
               /\ ~Bound(detections[r])
               /\ idx[r] = 0

\* Every request has ended, one with records returned and one with a
\* failure, and no handler is running.
C10_Witness ==
    /\ running = 0
    /\ \A r \in Reqs : pc[r] = "done"
    /\ \E r \in Reqs : Succeeded(r) /\ Response(r).detections # << >>
    /\ \E r \in Reqs : Failed(r)

====
